---- MODULE Spec2Model ----
(***************************************************************************)
(* A model of the immob backend (Django / Django REST framework):          *)
(*   - properties/models.py, properties/views.py: Favorite rows and the    *)
(*     denormalised Property.favorites_count, the favorite toggle, the     *)
(*     property detail / list / featured / stats endpoints and their cache *)
(*   - reviews/models.py, reviews/views.py: ReviewLike rows and            *)
(*     Review.likes_count                                                  *)
(*   - notifications/*: the read state of notifications                    *)
(* The relational store executes one SQL statement at a time; a request    *)
(* handler is a sequence of statements, and handlers of different requests *)
(* interleave between statements.                                          *)
(***************************************************************************)
EXTENDS Integers, Sequences, FiniteSets, TLC

\* ------------------------------------------------------------------ bounds
NReq == 2          \* request slots of the favorite endpoints served at once
MaxFavId == 2      \* Favorite rows ever inserted (autoincrement ids 1..MaxFavId)

\* ------------------------------------------------------------- store data
Users == {"u1", "u2"}
Prop == {"p1", "p2"}
Req == 1..NReq
NoRow == 0

\* Property.STATUS_CHOICES (the ones the handlers distinguish), plus "absent"
\* for a primary key with no row.
Status == {"absent", "pending", "for_sale"}

\* Stores the model starts from: the property rows present before the requests.
Store(st1, st2, f1) ==
    [status |-> [p \in Prop |-> IF p = "p1" THEN st1 ELSE st2],
     featured |-> [p \in Prop |-> p = "p1" /\ f1]]

\* for the favorite endpoints: the properties a favorite can reference
FavoriteStores ==
    { Store("for_sale", "pending", FALSE), Store("pending", "absent", FALSE) }

VARIABLES
    pstatus,          \* Property.status per primary key ("absent": no row)
    is_featured,      \* Property.is_featured
    views_count,      \* Property.views_count
    favorites_count,  \* Property.favorites_count
    favorites,        \* the Favorite table: rows [id, user, property]
    favNextId,        \* next autoincrement id of the Favorite table
    freq,             \* the favorite requests in flight, one record per slot
    serial,           \* history: no two favorite requests have overlapped so far
    last,             \* history: the slot whose request completed most recently
    cache,            \* django.core.cache: key -> entry, or NoEntry
    commits,          \* history: property writes committed to the store so far
    writesDone,       \* history: property write requests completed (invalidation included)
    wreq,             \* the property write request in flight
    lreq,             \* the property list request in flight
    presp,            \* the last response of a PropertyViewSet endpoint
    retrieves,        \* history: detail requests that found their property, per property
    likes,            \* the ReviewLike rows: records [id, user, review]
    likes_count,      \* Review.likes_count, per review
    likeNextId,       \* next autoincrement id of ReviewLike
    lkresp,           \* the outcome of the last ReviewLike operation
    notifs,           \* the Notification rows: records [id, user, is_read, read_at]
    notifNextId,      \* next autoincrement id of Notification
    now,              \* timezone.now()
    nresp,            \* the last response of a NotificationViewSet endpoint
    kreq,             \* the requests whose cache key is computed: [prefix, query, seed, key]
    tokens,           \* the PasswordResetToken rows: [id, user, expires_at, is_used]
    tokNextId,        \* next token to be drawn (uuid4)
    password,         \* User.password, per user
    feedback,         \* the ApplicationFeedback row
    utime,            \* timezone.now() of the account endpoints
    aresp,            \* the last response of an account or feedback endpoint
    prow,             \* one Property row: [exists, status, published_at, views_count,
                      \* favorites_count]
    pinst,            \* the Property instances in memory: [held, ...the row's fields]
    ptime,            \* timezone.now() at Property.save
    everListed,       \* history: the row was saved with status for_sale or for_rent
    images,           \* the PropertyImage rows: image -> [exists, is_primary]
    lastPrimary,      \* history: per property, the image last saved with is_primary true
    prows,            \* the users with a Favorite row referencing the Property row
    fw,               \* the Favorite write in progress on the Property row
    pviews,           \* history: detail requests that found the Property row
    cresp,            \* the last response of a detail or update request on the row
    ucache,           \* the list cache entry per endpoint: [present, payload, by]
    ureq,             \* the list request in progress: [pc, kind, user, payload]
    uresp,            \* the last list response: [kind, user, status, payload, cached, by]
    mreq              \* the requests holding a Notification instance: [pc, op, inst]

propVars == <<pstatus, is_featured, views_count>>
favVars == <<favorites_count, favorites, favNextId, freq, serial, last>>
cacheVars == <<cache, commits, writesDone, wreq, lreq, presp, retrieves>>
likeVars == <<likes, likes_count, likeNextId, lkresp>>
notifVars == <<notifs, notifNextId, now, nresp>>
keyVars == <<kreq>>
acctVars == <<tokens, tokNextId, password, feedback, utime, aresp>>
pubVars == <<prow, pinst, ptime, everListed>>
imageVars == <<images, lastPrimary>>
cntVars == <<prows, fw, pviews, cresp>>
ulVars == <<ucache, ureq, uresp>>
markVars == <<mreq>>
moreVars == <<cntVars, ulVars, markVars>>
restVars == <<keyVars, acctVars, pubVars, imageVars, moreVars>>
vars == <<propVars, favVars, cacheVars, likeVars, notifVars, restVars>>

\* ------------------------------------------------------- Favorite (model)

\* Favorite.Meta.unique_together = ['user', 'property']: the INSERT of a row
\* for a pair that has one raises IntegrityError.
\* (variant: the table without the unique_together constraint)
UniqueTogetherViolated_NoConstraint(u, p, rows) == FALSE

UniqueTogetherViolated(u, p, rows) ==
    \E f \in rows : f.user = u /\ f.property = p

\* self.property.favorites.count(): COUNT(*) of the rows referencing p.
\* (variant: the COUNT without the filter on the property)
FavoritesCount_AllRows(p, rows) == Cardinality(rows)

\* (variant: incremental arithmetic on the stored counter)
FavoritesCount_StoredPlusOne(p, rows) == favorites_count[p] + 1

FavoritesCount(p, rows) ==
    Cardinality({f \in rows : f.property = p})

RowsOf(u, p) == {f \in favorites : f.user = u /\ f.property = p}

IdleReq == [pc |-> "idle", kind |-> "none", user |-> "u1", property |-> "p1",
            row |-> NoRow, cnt |-> 0, conflict |-> FALSE, reread |-> FALSE,
            created |-> FALSE, deleted |-> FALSE, resp |-> "none",
            pre |-> 0, hadRow |-> FALSE, prev |-> 0, alone |-> TRUE,
            joined |-> 0]

Quiet(r) == freq[r].pc \in {"idle", "done"}
Quiescent == \A r \in Req : Quiet(r)

\* Another request is in progress.
Overlaps(r) == \E q \in Req \ {r} : ~Quiet(q)

\* A request enters slot r: what the histories record at that moment.
Begin(r, kind, u, p) ==
    [IdleReq EXCEPT !.kind = kind, !.user = u, !.property = p,
                    !.pre = favorites_count[p],
                    !.hadRow = (RowsOf(u, p) # {}),
                    !.prev = last,
                    !.alone = ~Overlaps(r)]

\* Slot r can take a new request. The slots only name the handlers that run
\* side by side: when none is running, the new request takes the slot other
\* than the one of the request that completed last.
SlotFree(r) ==
    /\ Quiet(r)
    /\ Quiescent => (r # last /\ (last = 0 => r = 1))

\* The request rec takes slot r; each request in progress records that one
\* more request has begun beside it (counted up to two).
Enter(r, rec) ==
    [q \in Req |-> IF q = r THEN rec
                   ELSE IF Quiet(q) THEN freq[q]
                   ELSE [freq[q] EXCEPT !.joined = IF @ < 2 THEN @ + 1 ELSE @]]

FavInit ==
    /\ favorites_count = [p \in Prop |-> 0]
    /\ favorites = {}
    /\ favNextId = 1
    /\ freq = [r \in Req |-> IdleReq]
    /\ serial = TRUE
    /\ last = 0

NoEntry == [present |-> FALSE]

\* ---------------------------------------------------- cache keys (views.py)

\* The query strings the list endpoint is called with: sequences of
\* (name, value) in the order of the URL.
ParamSets == { <<>>, << <<"status", "for_sale">> >> }

\* request.query_params.get(name): the last value given for the name.
QueryGet(query, name, default) ==
    LET at == {i \in 1..Len(query) : query[i][1] = name} IN
    IF at = {} THEN default
    ELSE query[CHOOSE i \in at : \A j \in at : j <= i][2]

\* The values of one name, in the order of the URL.
RECURSIVE ValuesOf(_, _)
ValuesOf(query, name) ==
    IF query = <<>> THEN <<>>
    ELSE IF Head(query)[1] = name
         THEN <<Head(query)[2]>> \o ValuesOf(Tail(query), name)
         ELSE ValuesOf(Tail(query), name)

\* dict(request.query_params): each name with the list of its values.
QueryDict(query) ==
    [name \in {query[i][1] : i \in 1..Len(query)} |-> ValuesOf(query, name)]

\* The order of str on the parameter names.
NameRank(name) ==
    CASE name = "page" -> 1 [] name = "status" -> 2 [] OTHER -> 3

\* (variant: the items in the order the names first appear in the URL)
RECURSIVE ItemsInRequestOrder(_)
ItemsInRequestOrder(query) ==
    IF query = <<>> THEN <<>>
    ELSE LET name == Head(query)[1]
             rest == SelectSeq(Tail(query), LAMBDA kv : kv[1] # name) IN
         << <<name, ValuesOf(query, name)>> >> \o ItemsInRequestOrder(rest)

\* sorted(params.items()): the (name, values) items in the order of the names.
SortedItems(query) ==
    LET qd == QueryDict(query)
        names == DOMAIN qd
        n == Cardinality(names)
        ord == CHOOSE f \in [1..n -> names] :
                  \A i, j \in 1..n : i < j => NameRank(f[i]) < NameRank(f[j])
    IN [i \in 1..n |-> <<ord[i], qd[ord[i]]>>]

\* The code points the strings are made of, each string as one number.
Code(str) ==
    CASE str = "page" -> 3 [] str = "status" -> 5 [] str = "1" -> 7 [] str = "2" -> 11
      [] str = "for_sale" -> 13 [] str = "pending" -> 17 [] OTHER -> 19

\* '&'.join(f'{k}={v}' ...): the string as the sequence of its parts' codes,
\* 1 for '=' and 2 for '&'.
RECURSIVE Codes(_)
RECURSIVE JoinItems(_)
Codes(strs) == IF strs = <<>> THEN <<>> ELSE <<Code(Head(strs))>> \o Codes(Tail(strs))

JoinItems(items) ==
    IF items = <<>> THEN <<>>
    ELSE LET item == <<Code(Head(items)[1]), 1>> \o Codes(Head(items)[2]) IN
         IF Tail(items) = <<>> THEN item ELSE item \o <<2>> \o JoinItems(Tail(items))

HashMod == 65536   \* the range of hash values

\* hash(str): a deterministic function of the string and of the seed the
\* interpreter drew when the process started (hash randomization).
RECURSIVE HashFrom(_, _)
HashFrom(h, codes) ==
    IF codes = <<>> THEN h
    ELSE HashFrom((h * 31 + Head(codes)) % HashMod, Tail(codes))

Hash(codes, seed) == HashFrom((seed * 8191 + 7) % HashMod, codes)

\* The hash seed of the one server process that serves the property endpoints.
ServerSeed == 0

\* _get_cache_key: prefix + ':' + hash(sorted params), or the bare prefix when
\* the request has no query parameter.
GetCacheKey(prefix, query, seed) ==
    LET sorted_params == JoinItems(SortedItems(query)) IN
    IF sorted_params # <<>> THEN <<prefix, ":", Hash(sorted_params, seed)>>
    ELSE <<prefix>>

ListKeys == {GetCacheKey("property_list", ps, ServerSeed) : ps \in ParamSets}
CacheKeys == ListKeys \cup {<<"property_stats">>, <<"property_featured">>}
                      \cup {<<"property_detail", p>> : p \in Prop}

\* cache.delete_pattern(prefix + ':*'): the keys that start with prefix + ':'.
MatchesPattern(k, prefix) == Len(k) = 3 /\ k[1] = prefix /\ k[2] = ":"

\* cache.delete_pattern('property_list:*'); cache.delete('property_stats')
InvalidatedKeys ==
    {k \in CacheKeys : MatchesPattern(k, "property_list")} \cup {<<"property_stats">>}

NoListReq == [pc |-> "idle", params |-> <<>>, payload |-> {}, dataAt |-> 0, startedAt |-> 0]
NoWriteReq == [pc |-> "idle", property |-> "p1"]
NoResp == [op |-> "none", status |-> "none", cached |-> FALSE, setAt |-> 0,
           startedAt |-> 0, stale |-> FALSE, key |-> <<>>]

CacheInit ==
    /\ cache = [k \in CacheKeys |-> NoEntry]
    /\ commits = 0
    /\ writesDone = 0
    /\ wreq = NoWriteReq
    /\ lreq = NoListReq
    /\ presp = NoResp
    /\ retrieves = [p \in Prop |-> 0]

PropInit(stores) ==
    /\ \E s \in stores : pstatus = s.status /\ is_featured = s.featured
    /\ views_count = [p \in Prop |-> 0]

Reviews == {"r1", "r2"}

LikeInit ==
    /\ likes = {}
    /\ likes_count = [rv \in Reviews |-> 0]
    /\ likeNextId = 1
    /\ lkresp = [op |-> "none", status |-> "none", user |-> "u1", review |-> "r1",
                 hadRow |-> FALSE, is_liked |-> FALSE]

NoTime == 0

NoKey == <<>>
KeyReq == 1..2

KeyInit == kreq = [i \in KeyReq |-> [prefix |-> "property_list", query |-> <<>>,
                                     seed |-> ServerSeed, key |-> NoKey]]

\* set_password: the password is stored as its hash.
make_password(raw) == <<"pbkdf2_sha256", raw>>

NoAcctResp == [op |-> "none", status |-> "none", mailFailed |-> FALSE, kept |-> FALSE,
               wasUsed |-> FALSE, wasExpired |-> FALSE, unchanged |-> FALSE,
               applied |-> FALSE]

AcctInit ==
    /\ tokens = {}
    /\ tokNextId = 1
    /\ password = [u \in Users |-> make_password("old")]
    /\ feedback = [email |-> TRUE, response |-> "", is_resolved |-> FALSE,
                   responded_at |-> NoTime]
    /\ utime = 1
    /\ aresp = NoAcctResp

NInst == 2         \* instances of the Property held in memory at once
Inst == 1..NInst
NoInst == [held |-> FALSE, status |-> "pending", published_at |-> NoTime,
           views_count |-> 0, favorites_count |-> 0]

PubInit ==
    /\ prow = [exists |-> FALSE, status |-> "pending", published_at |-> NoTime,
               views_count |-> 0, favorites_count |-> 0]
    /\ pinst = [i \in Inst |-> NoInst]
    /\ ptime = 1
    /\ everListed = FALSE

ImageIds == {"i1", "i2", "i3", "i4"}

\* PropertyImage.property: i1, i2 and i3 are images of p1, i4 of p2.
ImageProperty(img) == IF img = "i4" THEN "p2" ELSE "p1"

ImageInit ==
    /\ images = [img \in ImageIds |-> [exists |-> FALSE, is_primary |-> FALSE]]
    /\ lastPrimary = [p \in Prop |-> "none"]

NoFavoriteWrite == [pc |-> "idle", kind |-> "none", user |-> "u1", inst |-> NoInst,
                    cnt |-> 0, stale |-> FALSE]

CntInit ==
    /\ prows = {}
    /\ fw = NoFavoriteWrite
    /\ pviews = 0
    /\ cresp = [op |-> "none", status |-> "none"]

\* The endpoints whose list is cached under a key made of the query parameters.
ListKinds == {"property_list", "review_list"}
\* request.user: an account, or AnonymousUser
Callers == Users \cup {"anon"}
NoUserEntry == [present |-> FALSE, payload |-> {}, by |-> "anon"]
NoUserReq == [pc |-> "idle", kind |-> "property_list", user |-> "anon", payload |-> {}]

UlInit ==
    /\ ucache = [k \in ListKinds |-> NoUserEntry]
    /\ ureq = NoUserReq
    /\ uresp = [kind |-> "property_list", user |-> "anon", status |-> "none",
                payload |-> {}, cached |-> FALSE, by |-> "anon"]

NoMarkReq == [pc |-> "idle", op |-> "none",
              inst |-> [id |-> 0, user |-> "u1", is_read |-> FALSE, read_at |-> NoTime]]

MarkInit == mreq = [r \in Req |-> NoMarkReq]

MoreInit == CntInit /\ UlInit /\ MarkInit

RestInit == KeyInit /\ AcctInit /\ PubInit /\ ImageInit /\ MoreInit

NotifInit ==
    /\ notifs = {}
    /\ notifNextId = 1
    /\ now = 1
    /\ nresp = [op |-> "none", status |-> "none", count |-> 0, unreadBefore |-> 0,
                unreadAfter |-> 0]

InitFavorites == PropInit(FavoriteStores) /\ FavInit /\ CacheInit /\ LikeInit /\ NotifInit /\ RestInit

\* ------------------------------------------- FavoriteViewSet and Favorite

\* The response is returned: the handler's locals (the row it held, the count it
\* read) are gone, what it did stays on record.
Finish(rec, resp) == [rec EXCEPT !.pc = "done", !.resp = resp, !.row = NoRow, !.cnt = 0]

\* Requests that may still insert a row: the autoincrement ids stay bounded.
PendingInserts == Cardinality({r \in Req : freq[r].pc \in {"get", "insert"}})
MayInsert == favNextId + PendingInserts <= MaxFavId

\* Django's QuerySet.get_or_create: when the INSERT raises IntegrityError it
\* reads the row again and returns it with created = False; it re-raises only
\* when that second read finds nothing.
\* (variant: a get_or_create that lets the IntegrityError through)
GetOrCreateRereads_Raises == FALSE

GetOrCreateRereads == TRUE

\* if not created: favorite.delete(); return 200, is_favorited False
\* (variant: the handler without its delete branch)
ToggleRemoves_Never(created) == FALSE

ToggleRemoves(created) == ~created

\* FavoriteViewSet.create up to get_object_or_404(Property, id=property_id).
FavoriteViewSet_create(r, u, p) ==
    /\ SlotFree(r)
    /\ MayInsert
    /\ serial' = (serial /\ ~Overlaps(r))
    /\ IF p = "none"
       THEN /\ freq' = Enter(r, Finish([IdleReq EXCEPT !.kind = "toggle", !.user = u,
                                                           !.prev = last], "400"))
            /\ last' = r
       ELSE IF pstatus[p] = "absent"
       THEN /\ freq' = Enter(r, Finish(Begin(r, "toggle", u, p), "404"))
            /\ last' = r
       ELSE /\ freq' = Enter(r, [Begin(r, "toggle", u, p) EXCEPT !.pc = "get"])
            /\ last' = last
    /\ UNCHANGED <<favorites_count, favorites, favNextId, propVars, cacheVars, likeVars, notifVars, restVars>>

\* get_or_create: the first SELECT of the (user, property) row.
get_or_create_get(r) ==
    LET q == freq[r] IN
    /\ q.pc = "get"
    /\ IF RowsOf(q.user, q.property) # {}
       THEN \E f \in RowsOf(q.user, q.property) :
              IF ToggleRemoves(FALSE)
              THEN /\ freq' = [freq EXCEPT ![r] = [q EXCEPT !.pc = "delete", !.row = f.id]]
                   /\ last' = last
              ELSE /\ freq' = [freq EXCEPT ![r] = Finish([q EXCEPT !.row = f.id], "200")]
                   /\ last' = r
       ELSE /\ freq' = [freq EXCEPT ![r] = [q EXCEPT !.pc = "insert"]]
            /\ last' = last
    /\ UNCHANGED <<favorites_count, favorites, favNextId, serial, propVars, cacheVars, likeVars, notifVars, restVars>>

\* Favorite.objects.create(user, property) called directly (the model API).
Favorite_objects_create(r, u, p) ==
    /\ SlotFree(r)
    /\ MayInsert
    /\ pstatus[p] # "absent"
    /\ serial' = (serial /\ ~Overlaps(r))
    /\ freq' = Enter(r, [Begin(r, "save", u, p) EXCEPT !.pc = "insert"])
    /\ UNCHANGED <<favorites_count, favorites, favNextId, last, propVars, cacheVars, likeVars, notifVars, restVars>>

\* Favorite.save, first statement: super().save(), the INSERT.
Favorite_save_insert(r) ==
    LET q == freq[r] IN
    /\ q.pc = "insert"
    /\ IF UniqueTogetherViolated(q.user, q.property, favorites)
       THEN /\ IF q.kind = "toggle" /\ GetOrCreateRereads
               THEN /\ freq' = [freq EXCEPT ![r] = [q EXCEPT !.pc = "reread",
                                                            !.conflict = TRUE]]
                    /\ last' = last
               ELSE /\ freq' = [freq EXCEPT ![r] =
                                  Finish([q EXCEPT !.conflict = TRUE], "IntegrityError")]
                    /\ last' = r
            /\ UNCHANGED <<favorites, favNextId>>
       ELSE /\ favorites' = favorites \cup
                  {[id |-> favNextId, user |-> q.user, property |-> q.property]}
            /\ favNextId' = favNextId + 1
            /\ freq' = [freq EXCEPT ![r] = [q EXCEPT !.pc = "count", !.row = favNextId,
                                                     !.created = TRUE]]
            /\ last' = last
    /\ UNCHANGED <<favorites_count, serial, propVars, cacheVars, likeVars, notifVars, restVars>>

\* get_or_create after IntegrityError: the second SELECT.
get_or_create_reread(r) ==
    LET q == freq[r] IN
    /\ q.pc = "reread"
    /\ IF RowsOf(q.user, q.property) # {}
       THEN \E f \in RowsOf(q.user, q.property) :
              /\ freq' = [freq EXCEPT ![r] = [q EXCEPT !.pc = "delete", !.row = f.id,
                                                       !.reread = TRUE]]
              /\ last' = last
       ELSE /\ freq' = [freq EXCEPT ![r] = Finish(q, "IntegrityError")]
            /\ last' = r
    /\ UNCHANGED <<favorites_count, favorites, favNextId, serial, propVars, cacheVars, likeVars, notifVars, restVars>>

\* FavoriteViewSet.destroy: get_object() among the user's rows, then
\* perform_destroy -> instance.delete().
FavoriteViewSet_destroy(r, u, id) ==
    /\ SlotFree(r)
    /\ serial' = (serial /\ ~Overlaps(r))
    /\ IF \E f \in favorites : f.id = id /\ f.user = u
       THEN LET f == CHOOSE g \in favorites : g.id = id IN
            /\ freq' = Enter(r, [Begin(r, "destroy", u, f.property)
                                     EXCEPT !.pc = "delete", !.row = id])
            /\ last' = last
       ELSE /\ freq' = Enter(r, Finish([IdleReq EXCEPT !.kind = "destroy", !.user = u,
                                                           !.prev = last], "404"))
            /\ last' = r
    /\ UNCHANGED <<favorites_count, favorites, favNextId, propVars, cacheVars, likeVars, notifVars, restVars>>

\* Favorite.delete, first statement: super().delete(), DELETE ... WHERE id = pk.
Favorite_delete_row(r) ==
    LET q == freq[r] IN
    /\ q.pc = "delete"
    /\ favorites' = {f \in favorites : f.id # q.row}
    /\ freq' = [freq EXCEPT ![r] = [q EXCEPT !.pc = "count", !.deleted = TRUE]]
    /\ UNCHANGED <<favorites_count, favNextId, serial, last, propVars, cacheVars, likeVars, notifVars, restVars>>

\* Favorite.save / Favorite.delete: property.favorites.count()
Favorite_count(r) ==
    LET q == freq[r] IN
    /\ q.pc = "count"
    /\ freq' = [freq EXCEPT ![r] = [q EXCEPT !.pc = "persist",
                                             !.cnt = FavoritesCount(q.property, favorites)]]
    /\ UNCHANGED <<favorites_count, favorites, favNextId, serial, last, propVars, cacheVars, likeVars, notifVars, restVars>>

\* (variant: a toggle that answers 201 whatever it did)
ToggleStatus_Always201(created) == "201"

\* FavoriteViewSet.create: 200 with is_favorited False after the delete, 201
\* with is_favorited True after the creation.
ToggleStatus(created) == IF created THEN "201" ELSE "200"

\* Favorite.save / Favorite.delete: property.save(update_fields=['favorites_count']),
\* then the handler's response.
Favorite_persist(r) ==
    LET q == freq[r] IN
    /\ q.pc = "persist"
    /\ favorites_count' = [favorites_count EXCEPT ![q.property] = q.cnt]
    /\ freq' = [freq EXCEPT ![r] =
                  Finish(q, CASE q.kind = "toggle" -> ToggleStatus(q.created)
                              [] q.kind = "save" -> "saved"
                              [] OTHER -> "204")]
    /\ last' = r
    /\ UNCHANGED <<favorites, favNextId, serial, propVars, cacheVars, likeVars, notifVars, restVars>>

\* check: Favorite.objects.filter(user=request.user, property_id=...).exists()
IsFavorited(u, p) == \E f \in favorites : f.user = u /\ f.property = p

\* FavoriteViewSet.check: 400 without property_id, else is_favorited.
FavoriteViewSet_check(r, u, p) ==
    /\ SlotFree(r)
    /\ serial' = (serial /\ ~Overlaps(r))
    /\ IF p = "none"
       THEN freq' = Enter(r, Finish([IdleReq EXCEPT !.kind = "check", !.user = u,
                                                        !.prev = last], "400"))
       ELSE freq' = Enter(r, Finish(Begin(r, "check", u, p),
                                    IF IsFavorited(u, p) THEN "is_favorited"
                                    ELSE "not_favorited"))
    /\ last' = r
    /\ UNCHANGED <<favorites_count, favorites, favNextId, propVars, cacheVars, likeVars, notifVars, restVars>>

NextFavorites ==
    \/ \E r \in Req, u \in Users, p \in Prop \cup {"none"} : FavoriteViewSet_create(r, u, p)
    \/ \E r \in Req : get_or_create_get(r)
    \/ \E r \in Req, u \in Users, p \in Prop : Favorite_objects_create(r, u, p)
    \/ \E r \in Req : Favorite_save_insert(r)
    \/ \E r \in Req : get_or_create_reread(r)
    \/ \E r \in Req, u \in Users, id \in {f.id : f \in favorites} \cup {NoRow} :
          FavoriteViewSet_destroy(r, u, id)
    \/ \E r \in Req : Favorite_delete_row(r)
    \/ \E r \in Req : Favorite_count(r)
    \/ \E r \in Req : Favorite_persist(r)
    \/ \E r \in Req, u \in Users, p \in Prop \cup {"none"} : FavoriteViewSet_check(r, u, p)

SpecFavorites == InitFavorites /\ [][NextFavorites]_vars

\* ------------------------------------------------ properties of favorites

RowCount(p) == Cardinality({f \in favorites : f.property = p})

\* C1: when the Favorite creations and deletions (direct save / delete and
\* toggle requests, by any users) have run to completion one at a time, every
\* property's favorites_count equals the number of Favorite rows referencing it.
C1_FavoritesCountMatchesRows ==
    (serial /\ Quiescent) => \A p \in Prop : favorites_count[p] = RowCount(p)

\* C1's case: a serial run in which a delete removed one of two rows of a property.
C1_Witness ==
    /\ serial /\ Quiescent
    /\ \E r \in Req : /\ freq[r].pc = "done" /\ freq[r].kind = "destroy"
                      /\ freq[r].deleted
                      /\ favorites_count[freq[r].property] = 1
                      /\ freq[r].pre = 2

UniquePairs ==
    \A f, g \in favorites : (f.user = g.user /\ f.property = g.property) => f = g

\* A direct Favorite.objects.create for a pair that has a row: the step that
\* executes its INSERT.
RejectedDirectInsert(r) ==
    /\ freq[r].pc = "insert" /\ freq[r].kind = "save"
    /\ RowsOf(freq[r].user, freq[r].property) # {}
    /\ freq'[r].pc # freq[r].pc

\* C3: in every reachable state, whatever the interleaving of toggles and
\* direct creations, there is at most one Favorite row per (user, property);
\* a direct insert of a second row for a pair is rejected with IntegrityError
\* and leaves the table as it was.
C3_OneFavoritePerPair ==
    /\ []UniquePairs
    /\ [][\A r \in Req : RejectedDirectInsert(r) =>
              /\ favorites' = favorites
              /\ freq'[r].pc = "done" /\ freq'[r].resp = "IntegrityError"]_vars

\* C3's case: a direct create was rejected while the pair's row stays.
C3_Witness ==
    \E r \in Req : /\ freq[r].pc = "done" /\ freq[r].kind = "save"
                   /\ freq[r].conflict /\ freq[r].resp = "IntegrityError"
                   /\ RowsOf(freq[r].user, freq[r].property) # {}

\* r1's toggle, then r2's toggle of the same pair, one after the other with no
\* request in between, the first starting from no row.
TwoTogglesInSequence(r1, r2) ==
    /\ serial /\ Quiescent
    /\ r1 # r2 /\ last = r2 /\ freq[r2].prev = r1
    /\ freq[r1].pc = "done" /\ freq[r2].pc = "done"
    /\ freq[r1].kind = "toggle" /\ freq[r2].kind = "toggle"
    /\ freq[r1].resp \notin {"400", "404"} /\ freq[r2].resp \notin {"400", "404"}
    /\ freq[r1].user = freq[r2].user /\ freq[r1].property = freq[r2].property
    /\ ~freq[r1].hadRow

\* C4: two toggles of the same pair in sequence, starting from no row: the
\* first creates the row (201, favorites_count + 1), the second deletes it
\* (200), leaving no row for the pair and favorites_count at its value before
\* the first toggle.
C4_ToggleTwiceRestores ==
    \A r1, r2 \in Req : TwoTogglesInSequence(r1, r2) =>
        /\ freq[r1].resp = "201" /\ freq[r1].created
        /\ freq[r2].pre = freq[r1].pre + 1
        /\ freq[r2].resp = "200" /\ freq[r2].deleted
        /\ RowsOf(freq[r1].user, freq[r1].property) = {}
        /\ favorites_count[freq[r1].property] = freq[r1].pre

\* C4's case: the two toggles have run, the second one answering 200.
C4_Witness ==
    \E r1, r2 \in Req : TwoTogglesInSequence(r1, r2) /\ freq[r2].resp = "200"

\* A toggle whose INSERT the uniqueness constraint rejected: the loser of the race.
LostRace(r) ==
    freq[r].pc = "done" /\ freq[r].kind = "toggle" /\ freq[r].conflict

LoserOutcome ==
    /\ \A r \in Req : LostRace(r) =>
          IF freq[r].reread
          THEN freq[r].resp = "200" /\ freq[r].deleted /\ ~freq[r].created
          ELSE freq[r].resp = "IntegrityError" /\ ~freq[r].deleted /\ ~freq[r].created
    /\ \A r \in Req : (freq[r].kind = "toggle" /\ freq[r].conflict /\ ~Quiet(r))
          => freq[r].pc \in {"reread", "delete", "count", "persist"}

\* The step by which a toggle in progress answers IntegrityError.
ToggleRaises(r) ==
    /\ freq[r].kind = "toggle" /\ ~Quiet(r)
    /\ freq'[r].pc = "done" /\ freq'[r].resp = "IntegrityError"

ToggleAnswered(r) ==
    freq[r].pc = "done" /\ freq[r].kind = "toggle" /\ freq[r].resp \in {"201", "200"}

\* r2's check of a pair right after r1's toggle of it, nothing in between.
CheckAfterToggle(r1, r2) ==
    /\ serial /\ Quiescent
    /\ r1 # r2 /\ last = r2 /\ freq[r2].prev = r1
    /\ ToggleAnswered(r1)
    /\ freq[r2].pc = "done" /\ freq[r2].kind = "check" /\ freq[r2].resp # "400"
    /\ freq[r1].user = freq[r2].user /\ freq[r1].property = freq[r2].property

\* C15: a toggle answers 201 (is_favorited true) exactly when it created the
\* row and 200 (is_favorited false) exactly when it ran the delete; when the
\* requests run one after the other the answer is the membership after the
\* toggle, and a check of the same pair that follows returns the same value.
C15_ToggleReportsMembership ==
    /\ \A r \in Req : ToggleAnswered(r) =>
          /\ (freq[r].resp = "201") = freq[r].created
          /\ (freq[r].resp = "200") = freq[r].deleted
    /\ \A r \in Req : (ToggleAnswered(r) /\ serial /\ Quiescent /\ last = r) =>
          (freq[r].resp = "201") = (RowsOf(freq[r].user, freq[r].property) # {})
    /\ \A r1, r2 \in Req : CheckAfterToggle(r1, r2) =>
          (freq[r2].resp = "is_favorited") = (freq[r1].resp = "201")

\* C15's case: a toggle deleted the pair's row and answered 200, and the
\* check that follows has answered not favorited.
C15_Witness ==
    \E r1, r2 \in Req : /\ CheckAfterToggle(r1, r2) /\ freq[r1].resp = "200"
                        /\ freq[r1].hadRow /\ freq[r2].resp = "not_favorited"

\* ------------------------------------------------------- PropertyViewSet

MaxRetrieves == 3  \* detail requests counted per property
MaxViews == 3      \* cap of views_count

\* The stores the property endpoints start from.
PropertyStores ==
    { Store("absent", "absent", FALSE), Store("pending", "absent", FALSE),
      Store("for_sale", "absent", TRUE) }

InitProperty == PropInit(PropertyStores) /\ FavInit /\ CacheInit /\ LikeInit /\ NotifInit /\ RestInit

\* The relations a Property row can be followed through: its foreign keys and
\* the related_name of every model that points at it.
PropertyRelations ==
    {"property_type", "location", "owner", "agent",
     "images", "favorites", "favorited_by", "reviews"}

\* (variant: get_queryset with the lookups that Property has)
PrefetchLookups_Resolvable == {<<"images">>, <<"property_type", "category">>}

\* get_queryset: select_related(...).prefetch_related('images', 'amenities',
\* 'property_type__category'), each lookup as its path.
PrefetchLookups == {<<"images">>, <<"amenities">>, <<"property_type", "category">>}

\* prefetch_related_objects runs when a queryset that has rows is evaluated and
\* raises AttributeError for a lookup that is no attribute of the model.
Evaluate(rows) ==
    IF rows # {} /\ \E l \in PrefetchLookups : l[1] \notin PropertyRelations
    THEN "AttributeError" ELSE "ok"

\* get_queryset for a non-staff caller: status in (for_sale, for_rent).
Listed == {p \in Prop : pstatus[p] \in {"for_sale", "for_rent"}}

\* get_queryset with the request's status parameter applied.
Matching(params) ==
    LET status_filter == QueryGet(params, "status", "") IN
    {p \in Listed : status_filter # "" => pstatus[p] = status_filter}

Entry(payload, dataAt, setAt) ==
    [present |-> TRUE, payload |-> payload, dataAt |-> dataAt, setAt |-> setAt]

Respond(op, status, cached, setAt, startedAt, stale) ==
    [op |-> op, status |-> status, cached |-> cached, setAt |-> setAt,
     startedAt |-> startedAt, stale |-> stale, key |-> <<>>]

frameProperty == <<favVars, likeVars, notifVars, restVars>>

\* PropertyViewSet.list: the request arrives, its cache key is computed.
PropertyViewSet_list(params) ==
    /\ lreq.pc = "idle"
    /\ lreq' = [NoListReq EXCEPT !.pc = "get", !.params = params, !.startedAt = writesDone]
    /\ UNCHANGED <<propVars, cache, commits, writesDone, wreq, presp, retrieves, frameProperty>>

\* (variant: a list that never finds its entry)
CacheHit_Never(entry) == FALSE

\* cached_response is not None
CacheHit(entry) == entry.present

\* list: cached_response = cache.get(cache_key); a hit is returned as it is.
list_cache_get ==
    LET k == GetCacheKey("property_list", lreq.params, ServerSeed) IN
    /\ lreq.pc = "get"
    /\ IF CacheHit(cache[k])
       THEN /\ presp' = [Respond("list", "200", TRUE, cache[k].setAt, lreq.startedAt,
                                 cache[k].payload # Matching(lreq.params))
                           EXCEPT !.key = k]
            /\ lreq' = NoListReq
       ELSE /\ lreq' = [lreq EXCEPT !.pc = "query"]
            /\ presp' = presp
    /\ UNCHANGED <<propVars, cache, commits, writesDone, wreq, retrieves, frameProperty>>

\* list: super().list(): the queryset is filtered, paginated and serialized.
list_query ==
    /\ lreq.pc = "query"
    /\ IF Evaluate(Matching(lreq.params)) = "ok"
       THEN /\ lreq' = [lreq EXCEPT !.pc = "set", !.payload = Matching(lreq.params),
                                    !.dataAt = commits]
            /\ presp' = presp
       ELSE /\ presp' = Respond("list", "500", FALSE, 0, lreq.startedAt, FALSE)
            /\ lreq' = NoListReq
    /\ UNCHANGED <<propVars, cache, commits, writesDone, wreq, retrieves, frameProperty>>

\* list: cache.set(cache_key, response.data, CACHE_TIMEOUT_PROPERTY_LIST).
list_cache_set ==
    LET k == GetCacheKey("property_list", lreq.params, ServerSeed) IN
    /\ lreq.pc = "set"
    /\ cache' = [cache EXCEPT ![k] = Entry(lreq.payload, lreq.dataAt, writesDone)]
    /\ presp' = [Respond("list", "200", FALSE, writesDone, lreq.startedAt,
                         lreq.payload # Matching(lreq.params)) EXCEPT !.key = k]
    /\ lreq' = NoListReq
    /\ UNCHANGED <<propVars, commits, writesDone, wreq, retrieves, frameProperty>>

\* PropertyViewSet.retrieve: get_object() evaluates get_queryset().get(pk=pk);
\* then the UPDATE views_count = F('views_count') + 1, the serialization and
\* cache.set('property_detail_<pk>').
PropertyViewSet_retrieve(p) ==
    /\ retrieves[p] < MaxRetrieves
    /\ IF p \notin Listed
       THEN /\ presp' = Respond("retrieve", "404", FALSE, 0, writesDone, FALSE)
            /\ UNCHANGED <<views_count, cache, retrieves>>
       ELSE /\ retrieves' = [retrieves EXCEPT ![p] = @ + 1]
            /\ IF Evaluate({p}) = "ok"
               THEN /\ views_count' = [views_count EXCEPT ![p] =
                                          IF @ < MaxViews THEN @ + 1 ELSE @]
                    /\ cache' = [cache EXCEPT ![<<"property_detail", p>>] =
                                    Entry({p}, commits, writesDone)]
                    /\ presp' = Respond("retrieve", "200", FALSE, writesDone,
                                        writesDone, FALSE)
               ELSE /\ presp' = Respond("retrieve", "500", FALSE, 0, writesDone, FALSE)
                    /\ UNCHANGED <<views_count, cache>>
    /\ UNCHANGED <<pstatus, is_featured, commits, writesDone, wreq, lreq, frameProperty>>

\* PropertyViewSet.create -> perform_create: serializer.save(owner=...). The
\* create serializer has no is_featured field: the row gets the default.
PropertyViewSet_create(p, st) ==
    /\ wreq.pc = "idle"
    /\ pstatus[p] = "absent"
    /\ pstatus' = [pstatus EXCEPT ![p] = st]
    /\ is_featured' = [is_featured EXCEPT ![p] = FALSE]
    /\ views_count' = [views_count EXCEPT ![p] = 0]
    /\ commits' = commits + 1
    /\ wreq' = [pc |-> "invalidate", property |-> p]
    /\ UNCHANGED <<cache, writesDone, lreq, presp, retrieves, frameProperty>>

\* _invalidate_property_cache, then the 201 response.
invalidate_property_cache ==
    /\ wreq.pc = "invalidate"
    /\ cache' = [k \in CacheKeys |-> IF k \in InvalidatedKeys THEN NoEntry ELSE cache[k]]
    /\ writesDone' = writesDone + 1
    /\ wreq' = NoWriteReq
    /\ presp' = Respond("create", "201", FALSE, 0, writesDone, FALSE)
    /\ UNCHANGED <<propVars, commits, lreq, retrieves, frameProperty>>

\* PropertyViewSet.update / partial_update / destroy: get_object() first, as in
\* retrieve; perform_update / perform_destroy save or delete the row and
\* invalidate.
PropertyViewSet_write(op, p, st) ==
    /\ wreq.pc = "idle"
    /\ IF p \notin Listed
       THEN /\ presp' = Respond(op, "404", FALSE, 0, writesDone, FALSE)
            /\ UNCHANGED <<pstatus, commits, wreq>>
       ELSE IF Evaluate({p}) = "ok"
       THEN /\ pstatus' = [pstatus EXCEPT ![p] = IF op = "destroy" THEN "absent" ELSE st]
            /\ commits' = commits + 1
            /\ wreq' = [pc |-> "invalidate", property |-> p]
            /\ presp' = presp
       ELSE /\ presp' = Respond(op, "500", FALSE, 0, writesDone, FALSE)
            /\ UNCHANGED <<pstatus, commits, wreq>>
    /\ UNCHANGED <<is_featured, views_count, cache, writesDone, lreq, retrieves,
                   frameProperty>>

FeaturedRows == {p \in Listed : is_featured[p]}

\* PropertyViewSet.featured: cache.get('property_featured'), else the featured
\* rows are serialized and cached.
PropertyViewSet_featured ==
    LET k == <<"property_featured">> IN
    /\ IF cache[k].present
       THEN /\ presp' = Respond("featured", "200", TRUE, cache[k].setAt, writesDone,
                                cache[k].payload # FeaturedRows)
            /\ cache' = cache
       ELSE IF Evaluate(FeaturedRows) = "ok"
       THEN /\ cache' = [cache EXCEPT ![k] = Entry(FeaturedRows, commits, writesDone)]
            /\ presp' = Respond("featured", "200", FALSE, writesDone, writesDone, FALSE)
       ELSE /\ presp' = Respond("featured", "500", FALSE, 0, writesDone, FALSE)
            /\ cache' = cache
    /\ UNCHANGED <<propVars, commits, writesDone, wreq, lreq, retrieves, frameProperty>>

\* What stats aggregates: the rows of the table with their status.
StatsPayload ==
    {<<p, pstatus[p], is_featured[p], views_count[p]>> :
        p \in {q \in Prop : pstatus[q] # "absent"}}

\* PropertyViewSet.stats: cache.get('property_stats'), else the aggregates over
\* Property.objects (no prefetch) are computed and cached.
PropertyViewSet_stats ==
    LET k == <<"property_stats">> IN
    /\ IF cache[k].present
       THEN /\ presp' = Respond("stats", "200", TRUE, cache[k].setAt, writesDone,
                                cache[k].payload # StatsPayload)
            /\ cache' = cache
       ELSE /\ cache' = [cache EXCEPT ![k] = Entry(StatsPayload, commits, writesDone)]
            /\ presp' = Respond("stats", "200", FALSE, writesDone, writesDone, FALSE)
    /\ UNCHANGED <<propVars, commits, writesDone, wreq, lreq, retrieves, frameProperty>>

\* An entry reaches its timeout (CACHE_TIMEOUT_*) and is dropped.
cache_expire(k) ==
    /\ cache[k].present
    /\ cache' = [cache EXCEPT ![k] = NoEntry]
    /\ UNCHANGED <<propVars, commits, writesDone, wreq, lreq, presp, retrieves,
                   frameProperty>>

NextProperty ==
    \/ \E ps \in ParamSets : PropertyViewSet_list(ps)
    \/ list_cache_get
    \/ list_query
    \/ list_cache_set
    \/ \E p \in Prop : PropertyViewSet_retrieve(p)
    \/ \E p \in Prop, st \in {"pending", "for_sale"} : PropertyViewSet_create(p, st)
    \/ invalidate_property_cache
    \/ \E op \in {"update", "destroy"}, p \in Prop, st \in {"pending", "for_sale"} :
          PropertyViewSet_write(op, p, st)
    \/ PropertyViewSet_featured
    \/ PropertyViewSet_stats
    \/ \E k \in CacheKeys : cache_expire(k)

SpecProperty == InitProperty /\ [][NextProperty]_vars

\* A completed Favorite write of property p: the request inserted or deleted a
\* row referencing p, then counted the rows and persisted favorites_count.
CompletedWrite(r, p) ==
    /\ freq[r].pc = "done" /\ freq[r].property = p
    /\ freq[r].kind \in {"toggle", "save", "destroy"}
    /\ freq[r].created \/ freq[r].deleted

\* C19: two Favorite writes referencing the same property have interleaved
\* (the run is not serial) and both have completed: favorites_count of the
\* property equals the number of Favorite rows referencing it.
C19_InterleavedWritesKeepCount ==
    \A p \in Prop : \A r1, r2 \in Req :
        (~serial /\ Quiescent /\ r1 # r2 /\ CompletedWrite(r1, p) /\ CompletedWrite(r2, p))
        => favorites_count[p] = RowCount(p)

\* Two concurrent toggles of one pair that have both answered: r1 began while
\* no request was in progress, r2 began while r1 was in progress, and no other
\* request began beside r1.
TwoConcurrentToggles(r1, r2) ==
    /\ Quiescent /\ r1 # r2
    /\ ToggleAnswered(r1) /\ ToggleAnswered(r2)
    /\ freq[r1].user = freq[r2].user /\ freq[r1].property = freq[r2].property
    /\ freq[r1].alone /\ freq[r1].joined = 1 /\ ~freq[r2].alone

\* C20: two concurrent toggles of the same (user, property) pair that have
\* both completed have flipped the membership twice: the pair is a favorite
\* exactly when it was one before them.
C20_ConcurrentTogglesFlipTwice ==
    \A r1, r2 \in Req : TwoConcurrentToggles(r1, r2) =>
        (IsFavorited(freq[r1].user, freq[r1].property) = freq[r1].hadRow)

\* ------------------------------------------- out-of-band removal of favorites

\* User.delete(): the cascade (Favorite.user, on_delete=CASCADE) removes the
\* user's Favorite rows in the collector, without calling Favorite.delete:
\* no favorites_count is recomputed. The name is free for a later account.
User_delete(u) ==
    /\ \E f \in favorites : f.user = u
    /\ favorites' = {f \in favorites : f.user # u}
    /\ serial' = (serial /\ Quiescent)
    /\ last' = 0
    /\ UNCHANGED <<favorites_count, favNextId, freq, propVars, cacheVars, likeVars,
                   notifVars, restVars>>

NextHeal ==
    \/ \E r \in Req, u \in Users, p \in Prop : FavoriteViewSet_create(r, u, p)
    \/ \E r \in Req : get_or_create_get(r)
    \/ \E r \in Req : Favorite_save_insert(r)
    \/ \E r \in Req : get_or_create_reread(r)
    \/ \E r \in Req, u \in Users, id \in {f.id : f \in favorites} :
          FavoriteViewSet_destroy(r, u, id)
    \/ \E r \in Req : Favorite_delete_row(r)
    \/ \E r \in Req : Favorite_count(r)
    \/ \E r \in Req : Favorite_persist(r)
    \/ \E u \in Users : User_delete(u)

SpecHeal == InitFavorites /\ [][NextHeal]_vars

\* C21: whatever rows were removed out of band before it, once a Favorite
\* create or delete referencing P has completed (run on its own, nothing
\* removed since), P.favorites_count equals the number of Favorite rows
\* referencing P.
C21_CountHealsOnNextWrite ==
    \A p \in Prop : \A r \in Req :
        (serial /\ Quiescent /\ last = r /\ CompletedWrite(r, p))
        => favorites_count[p] = RowCount(p)

\* C21's case: when the creation began favorites_count differed from the row
\* count (rows had been removed by a cascade); it has completed.
C21_Witness ==
    \E p \in Prop : \E r \in Req :
        /\ serial /\ Quiescent /\ last = r /\ CompletedWrite(r, p)
        /\ freq[r].created
        /\ freq[r].pre # RowCount(p) - 1
        /\ favorites_count[p] = RowCount(p)

\* ------------------------------------------- properties of PropertyViewSet

C7_ListNotStaleAfterWrite ==
    (presp.op = "list" /\ presp.cached) => presp.setAt >= presp.startedAt

\* C8: every property write deletes property_stats and property_featured: a
\* stats or featured request that starts after a completed write is not
\* answered with an entry cached before that write.
C8_AggregatesInvalidatedOnWrite ==
    (presp.op \in {"stats", "featured"} /\ presp.cached) => presp.setAt >= presp.startedAt

\* The query parameters a list key was made from.
ParamsOfKey(k) ==
    CHOOSE ps \in ParamSets : GetCacheKey("property_list", ps, ServerSeed) = k

\* An entry whose payload was computed before a write was committed and that
\* was set after that write's invalidation.
SetAfterInvalidation(k) ==
    /\ cache[k].present /\ MatchesPattern(k, "property_list")
    /\ cache[k].dataAt < cache[k].setAt
    /\ cache[k].payload # Matching(ParamsOfKey(k))

\* The step of a list request that reads the cache.
ListReadsCache == lreq.pc = "get" /\ lreq'.pc # "get"

\* C18: a list entry present in the cache, stale or not, is what a list
\* request for its key is answered with, and it stays as it is until it
\* expires or a write invalidates it; there is an interleaving of one list
\* and one write that leaves an entry computed from the pre-write store.
C18_StaleEntryServedUntilRemoved ==
    /\ [][\A k \in ListKeys :
            (ListReadsCache /\ cache[k].present
               /\ k = GetCacheKey("property_list", lreq.params, ServerSeed))
            => /\ presp'.op = "list" /\ presp'.cached /\ presp'.key = k
               /\ presp'.setAt = cache[k].setAt
               /\ presp'.stale = (cache[k].payload # Matching(lreq.params))
               /\ cache' = cache]_vars
    /\ [][\A k \in ListKeys : cache[k].present =>
            \/ cache'[k] = cache[k]
            \/ cache'[k] = NoEntry /\ writesDone' = writesDone + 1
            \/ cache'[k] = NoEntry /\ UNCHANGED <<lreq, wreq, presp, writesDone>>]_vars

\* One list request and one write have both completed, the entry the list set
\* holds the pre-write result, and a later list request was answered with it.
C18_Witness ==
    /\ lreq.pc = "idle" /\ wreq.pc = "idle"
    /\ commits = 1 /\ writesDone = 1
    /\ \E k \in ListKeys :
          /\ SetAfterInvalidation(k)
          /\ presp.op = "list" /\ presp.status = "200" /\ presp.cached
          /\ presp.stale /\ presp.key = k /\ presp.setAt = cache[k].setAt

\* ------------------------------------------- ReviewLike and ReviewViewSet

MaxLikeId == 3     \* ReviewLike rows ever inserted (autoincrement ids 1..MaxLikeId)

InitLikes ==
    PropInit({Store("for_sale", "absent", FALSE)}) /\ FavInit /\ CacheInit
        /\ LikeInit /\ NotifInit /\ RestInit

frameLikes == <<propVars, favVars, cacheVars, notifVars, restVars>>

\* The names a Review row can be followed through: its foreign keys and the
\* related_name of the models that point at it.
ReviewRelations == {"user", "property", "images", "liked_by"}

\* ReviewViewSet.get_queryset: annotate(Count('likes'), Count('likes', filter=...))
AnnotateLookups == {"likes"}

\* annotate() resolves its lookups when the queryset is built: FieldError for a
\* name that is no field or relation of Review.
ReviewQuerySet ==
    IF AnnotateLookups \subseteq ReviewRelations THEN "ok" ELSE "FieldError"

LikeRowsOf(u, rv) == {l \in likes : l.user = u /\ l.review = rv}

\* is_approved: r1 is a review as the model's defaults make it (not approved),
\* r2 a review that staff approved.
ApprovedReviews == {"r2"}

LikeResp(op, status, u, rv, is_liked) ==
    [op |-> op, status |-> status, user |-> u, review |-> rv,
     hadRow |-> LikeRowsOf(u, rv) # {}, is_liked |-> is_liked]

\* ReviewLike.objects.filter(review=self.review).count()
LikesCount(rv, rows) == Cardinality({l \in rows : l.review = rv})

\* ReviewLike.save: super().save(), the recount, review.save(update_fields=
\* ['likes_count']); Review.save persists and then calls
\* property.update_average_rating(), which Property does not define.
ReviewLike_save(u, rv) ==
    IF LikeRowsOf(u, rv) # {}
    THEN /\ lkresp' = LikeResp("save", "IntegrityError", u, rv, FALSE)
         /\ UNCHANGED <<likes, likes_count, likeNextId>>
    ELSE LET rows == likes \cup {[id |-> likeNextId, user |-> u, review |-> rv]} IN
         /\ likes' = rows
         /\ likeNextId' = likeNextId + 1
         /\ likes_count' = [likes_count EXCEPT ![rv] = LikesCount(rv, rows)]
         /\ lkresp' = LikeResp("save", "AttributeError", u, rv, FALSE)

\* ReviewLike.objects.create(user, review), the model API.
ReviewLike_objects_create(u, rv) ==
    /\ likeNextId <= MaxLikeId
    /\ ReviewLike_save(u, rv)
    /\ UNCHANGED frameLikes

\* ReviewLike has no delete of its own: models.Model.delete removes the row.
ReviewLike_delete(id) ==
    /\ \E l \in likes : l.id = id
    /\ likes' = {l \in likes : l.id # id}
    /\ LET l == CHOOSE x \in likes : x.id = id IN
       lkresp' = LikeResp("delete", "deleted", l.user, l.review, FALSE)
    /\ UNCHANGED <<likes_count, likeNextId, frameLikes>>

\* ReviewViewSet.like: get_object() on get_queryset() (the approved reviews,
\* annotated), then get_or_create and, for a row that was there, like.delete().
ReviewViewSet_like(u, rv) ==
    /\ likeNextId <= MaxLikeId
    /\ IF ReviewQuerySet # "ok"
       THEN /\ lkresp' = LikeResp("like", "500", u, rv, FALSE)
            /\ UNCHANGED <<likes, likes_count, likeNextId>>
       ELSE IF rv \notin ApprovedReviews
       THEN /\ lkresp' = LikeResp("like", "404", u, rv, FALSE)
            /\ UNCHANGED <<likes, likes_count, likeNextId>>
       ELSE IF LikeRowsOf(u, rv) # {}
       THEN /\ likes' = likes \ LikeRowsOf(u, rv)
            /\ lkresp' = LikeResp("like", "200", u, rv, FALSE)
            /\ UNCHANGED <<likes_count, likeNextId>>
       ELSE ReviewLike_save(u, rv)
    /\ UNCHANGED frameLikes

NextLikes ==
    \/ \E u \in Users, rv \in Reviews : ReviewLike_objects_create(u, rv)
    \/ \E id \in 1..MaxLikeId : ReviewLike_delete(id)
    \/ \E u \in Users, rv \in Reviews : ReviewViewSet_like(u, rv)

SpecLikes == InitLikes /\ [][NextLikes]_vars

\* C2: after any sequence of ReviewLike creations and deletions referencing a
\* review, the review's likes_count equals the number of ReviewLike rows of
\* that review; a delete of a row recomputes and persists the counter.
C2_LikesCountMatchesRows ==
    \A rv \in Reviews : likes_count[rv] = LikesCount(rv, likes)

\* C14: a like request by an authenticated user on an existing review, one
\* created with the model's defaults included, succeeds: the first answers 200
\* with is_liked true and creates the ReviewLike row, a second by the same
\* user answers 200 with is_liked false and removes the row.
C14_LikeSucceedsOnAnyReview ==
    lkresp.op = "like" =>
        /\ lkresp.status = "200"
        /\ lkresp.is_liked = ~lkresp.hadRow
        /\ (LikeRowsOf(lkresp.user, lkresp.review) # {}) = lkresp.is_liked

\* ------------------------------------------------- NotificationViewSet

MaxNotifId == 3    \* Notification rows ever created (autoincrement ids 1..MaxNotifId)
MaxClock == 3      \* the instants timezone.now() takes

InitNotifications ==
    PropInit({Store("for_sale", "absent", FALSE)}) /\ FavInit /\ CacheInit
        /\ LikeInit /\ NotifInit /\ RestInit

frameNotifications == <<propVars, favVars, cacheVars, likeVars, restVars>>

NotifIds == 1..MaxNotifId

\* get_queryset: Notification.objects.filter(user=request.user)
NotificationsOf(u) == {n \in notifs : n.user = u}

Unread(u) == {n \in NotificationsOf(u) : ~n.is_read}

\* Meta.ordering = ['-created_at']: first() is the row created last.
First(rows) == CHOOSE n \in rows : \A m \in rows : m.id <= n.id

NotifResp(op, status, count, before, after) ==
    [op |-> op, status |-> status, count |-> count, unreadBefore |-> before,
     unreadAfter |-> after]

\* Notification.mark_as_read
mark_as_read(n) ==
    IF ~n.is_read THEN [n EXCEPT !.is_read = TRUE, !.read_at = now] ELSE n

\* NotificationViewSet.create: a row for the requesting user, unread.
NotificationViewSet_create(u) ==
    /\ notifNextId <= MaxNotifId
    /\ notifs' = notifs \cup {[id |-> notifNextId, user |-> u, is_read |-> FALSE,
                               read_at |-> NoTime]}
    /\ notifNextId' = notifNextId + 1
    /\ nresp' = NotifResp("create", "201", 0, 0, 0)
    /\ UNCHANGED <<now, frameNotifications>>

\* NotificationViewSet.retrieve: get_object(), then mark_as_read when unread.
NotificationViewSet_retrieve(u, id) ==
    /\ IF \E n \in NotificationsOf(u) : n.id = id
       THEN LET n == CHOOSE m \in NotificationsOf(u) : m.id = id IN
            /\ notifs' = (notifs \ {n}) \cup {mark_as_read(n)}
            /\ nresp' = NotifResp("retrieve", "200", 0, 0, 0)
       ELSE /\ nresp' = NotifResp("retrieve", "404", 0, 0, 0)
            /\ notifs' = notifs
    /\ UNCHANGED <<notifNextId, now, frameNotifications>>

\* The values a request body gives a writable field of NotificationSerializer;
\* "keep" is a body without the field.
IsReadInputs == {"keep", "true", "false"}
ReadAtInputs == {"keep", "null"}

\* NotificationSerializer: read_only_fields = ['id', 'user', 'created_at'];
\* is_read and read_at are written from the body.
SerializerUpdate(n, ir, rt) ==
    [n EXCEPT !.is_read = IF ir = "keep" THEN @ ELSE (ir = "true"),
              !.read_at = IF rt = "keep" THEN @ ELSE NoTime]

\* NotificationViewSet.update / partial_update (UpdateModelMixin):
\* get_object(), serializer.save().
NotificationViewSet_update(op, u, id, ir, rt) ==
    /\ IF \E n \in NotificationsOf(u) : n.id = id
       THEN LET n == CHOOSE m \in NotificationsOf(u) : m.id = id IN
            /\ notifs' = (notifs \ {n}) \cup {SerializerUpdate(n, ir, rt)}
            /\ nresp' = NotifResp(op, "200", 0, 0, 0)
       ELSE /\ nresp' = NotifResp(op, "404", 0, 0, 0)
            /\ notifs' = notifs
    /\ UNCHANGED <<notifNextId, now, frameNotifications>>

\* NotificationViewSet.mark_all_read: the user's unread rows are updated.
NotificationViewSet_mark_all_read(u) ==
    LET rows == Unread(u) IN
    /\ notifs' = (notifs \ rows) \cup {[n EXCEPT !.is_read = TRUE, !.read_at = now] : n \in rows}
    /\ nresp' = NotifResp("mark_all_read", "200", Cardinality(rows), Cardinality(rows),
                          Cardinality(Unread(u))')
    /\ UNCHANGED <<notifNextId, now, frameNotifications>>

\* NotificationViewSet.mark_read: with ids, the user's unread rows among them
\* are updated; with no id (field absent or empty list), the most recent
\* unread row is marked.
NotificationViewSet_mark_read(u, ids) ==
    LET before == Cardinality(Unread(u)) IN
    /\ IF ids # {}
       THEN LET rows == {n \in Unread(u) : n.id \in ids} IN
            /\ notifs' = (notifs \ rows) \cup
                            {[n EXCEPT !.is_read = TRUE, !.read_at = now] : n \in rows}
            /\ nresp' = NotifResp("mark_read", "200", Cardinality(rows), before,
                                  Cardinality(Unread(u))')
       ELSE IF Unread(u) # {}
       THEN LET n == First(Unread(u)) IN
            /\ notifs' = (notifs \ {n}) \cup {mark_as_read(n)}
            /\ nresp' = NotifResp("mark_read_all", "200", 1, before, Cardinality(Unread(u))')
       ELSE /\ nresp' = NotifResp("mark_read_all", "200", 0, before, 0)
            /\ notifs' = notifs
    /\ UNCHANGED <<notifNextId, now, frameNotifications>>

\* NotificationViewSet.destroy
NotificationViewSet_destroy(u, id) ==
    /\ IF \E n \in NotificationsOf(u) : n.id = id
       THEN /\ notifs' = {n \in notifs : n.id # id}
            /\ nresp' = NotifResp("destroy", "204", 0, 0, 0)
       ELSE /\ nresp' = NotifResp("destroy", "404", 0, 0, 0)
            /\ notifs' = notifs
    /\ UNCHANGED <<notifNextId, now, frameNotifications>>

\* Time passes.
Tick ==
    /\ now < MaxClock
    /\ now' = now + 1
    /\ UNCHANGED <<notifs, notifNextId, nresp, frameNotifications>>

NextNotifications ==
    \/ \E u \in Users : NotificationViewSet_create(u)
    \/ \E u \in Users, id \in NotifIds : NotificationViewSet_retrieve(u, id)
    \/ \E op \in {"update", "partial_update"}, u \in Users, id \in NotifIds,
          ir \in IsReadInputs, rt \in ReadAtInputs :
          NotificationViewSet_update(op, u, id, ir, rt)
    \/ \E u \in Users : NotificationViewSet_mark_all_read(u)
    \/ \E u \in Users, ids \in SUBSET NotifIds : NotificationViewSet_mark_read(u, ids)
    \/ \E u \in Users, id \in NotifIds : NotificationViewSet_destroy(u, id)
    \/ Tick

SpecNotifications == InitNotifications /\ [][NextNotifications]_vars

\* C9: a notification's read state is monotonic: no API operation on it
\* (retrieve, update, partial update, mark_read, mark_all_read) takes is_read
\* from true back to false.
C9_ReadStateMonotonic ==
    [][\A n \in notifs : \A m \in notifs' : (m.id = n.id /\ n.is_read) => m.is_read]_vars

\* C10: a mark_read request with no notification id (field absent or empty
\* list) marks all of the user's unread notifications as read and returns as
\* count the number that were unread before the request.
C10_MarkReadEmptyMarksAll ==
    nresp.op = "mark_read_all" =>
        nresp.unreadAfter = 0 /\ nresp.count = nresp.unreadBefore

\* ------------------------------------------------------ _get_cache_key

MaxParams == 2     \* query parameters of one request

Prefixes == {"property_list", "review_list"}
ParamNames == {"page", "status"}
ParamValues == {"1", "2"}
Seeds == {0, 1}

RECURSIVE QueriesUpTo(_)
QueriesUpTo(n) ==
    IF n = 0 THEN {<<>>}
    ELSE LET shorter == QueriesUpTo(n - 1) IN
         shorter \cup {Append(q, <<k, v>>) : q \in shorter, k \in ParamNames,
                                            v \in ParamValues}

Queries == QueriesUpTo(MaxParams)

\* Two requests arrive, each at a process with its hash seed.
InitCacheKey ==
    /\ PropInit({Store("for_sale", "absent", FALSE)}) /\ FavInit /\ CacheInit
    /\ LikeInit /\ NotifInit /\ AcctInit /\ PubInit /\ ImageInit /\ MoreInit
    /\ kreq \in [KeyReq -> [prefix : Prefixes, query : Queries, seed : Seeds,
                            key : {NoKey}]]

\* cache_key = self._get_cache_key(prefix, request)
get_cache_key(i) ==
    /\ kreq[i].key = NoKey
    /\ kreq' = [kreq EXCEPT ![i].key = GetCacheKey(kreq[i].prefix, kreq[i].query,
                                                   kreq[i].seed)]
    /\ UNCHANGED <<propVars, favVars, cacheVars, likeVars, notifVars, acctVars, pubVars,
                   imageVars, moreVars>>

NextCacheKey == \E i \in KeyReq : get_cache_key(i)

SpecCacheKey == InitCacheKey /\ [][NextCacheKey]_vars

\* The parameters of a request as a set of (name, value).
ParamSet(query) == {query[i] : i \in 1..Len(query)}

KeyForm(r) ==
    IF r.query = <<>> THEN r.key = <<r.prefix>>
    ELSE Len(r.key) = 3 /\ r.key[1] = r.prefix /\ r.key[2] = ":"
         /\ r.key[3] \in 0..(HashMod - 1)

\* C11 (as claimed): the key is a function of the prefix and the set of query
\* parameters only: two requests with the same parameters, in whatever order,
\* have the same key; a request with parameters has prefix + ':' + hash, one
\* with none has the bare prefix.
C11_KeyIsFunctionOfParameterSet ==
    /\ \A i, j \in KeyReq :
          (kreq[i].key # NoKey /\ kreq[j].key # NoKey /\ kreq[i].prefix = kreq[j].prefix
             /\ ParamSet(kreq[i].query) = ParamSet(kreq[j].query))
          => kreq[i].key = kreq[j].key
    /\ \A i \in KeyReq : kreq[i].key # NoKey => KeyForm(kreq[i])

\* C11 (amended): within one process (one hash seed) the key is a function of
\* the prefix and of the parameters by name, each name with its values in the
\* order given: requests that differ only in the order of differently named
\* parameters have the same key; a request with parameters has prefix + ':' +
\* hash, one with none has the bare prefix.
C11_KeyIsFunctionOfNamedValues ==
    /\ \A i, j \in KeyReq :
          (kreq[i].key # NoKey /\ kreq[j].key # NoKey /\ kreq[i].prefix = kreq[j].prefix
             /\ kreq[i].seed = kreq[j].seed
             /\ QueryDict(kreq[i].query) = QueryDict(kreq[j].query))
          => kreq[i].key = kreq[j].key
    /\ \A i \in KeyReq : kreq[i].key # NoKey => KeyForm(kreq[i])

\* C11's case: the keys of two requests with the same two parameters in
\* different orders have been computed.
C11_Witness ==
    \E i, j \in KeyReq :
        /\ kreq[i].key # NoKey /\ kreq[j].key # NoKey
        /\ kreq[i].query # kreq[j].query /\ Len(kreq[i].query) = 2
        /\ QueryDict(kreq[i].query) = QueryDict(kreq[j].query)
        /\ kreq[i].prefix = kreq[j].prefix /\ kreq[i].seed = kreq[j].seed
        /\ kreq[i].key = kreq[j].key

\* ------------------------------- UserViewSet password reset, feedback respond

MaxTokId == 2      \* reset tokens ever created
MaxTime == 4       \* the instants timezone.now() takes at the account endpoints
ResetTTL == 2      \* timedelta(hours=1), in instants

InitAccounts ==
    /\ PropInit({Store("for_sale", "absent", FALSE)}) /\ FavInit /\ CacheInit
    /\ LikeInit /\ NotifInit /\ KeyInit /\ PubInit /\ ImageInit /\ MoreInit
    /\ AcctInit

frameAccounts == <<propVars, favVars, cacheVars, likeVars, notifVars, keyVars, pubVars,
                   imageVars, moreVars>>

Emails == Users \cup {"nobody"}
RawPasswords == {"new1", "new2"}
NoToken == 0

AcctResp(op, status) == [NoAcctResp EXCEPT !.op = op, !.status = status]

\* send_mail(..., fail_silently=...) over a transport that works or not:
\* what the caller sees.
send_mail(transport_ok, fail_silently) ==
    IF transport_ok \/ fail_silently THEN "returned" ELSE "raised"

\* UserViewSet.password_reset: for a known email the user's unused tokens are
\* deleted, a token valid for one hour is created, the mail is sent with
\* fail_silently=False; only User.DoesNotExist is caught.
UserViewSet_password_reset(email, transport_ok) ==
    /\ IF email \in Users
       THEN /\ tokNextId <= MaxTokId
            /\ tokens' = {t \in tokens : ~(t.user = email /\ ~t.is_used)} \cup
                         {[id |-> tokNextId, user |-> email,
                           expires_at |-> utime + ResetTTL, is_used |-> FALSE]}
            /\ tokNextId' = tokNextId + 1
            /\ aresp' = [AcctResp("password_reset",
                                  IF send_mail(transport_ok, FALSE) = "raised"
                                  THEN "500" ELSE "200")
                           EXCEPT !.mailFailed = ~transport_ok, !.kept = TRUE]
       ELSE /\ aresp' = AcctResp("password_reset", "200")
            /\ UNCHANGED <<tokens, tokNextId>>
    /\ UNCHANGED <<password, feedback, utime, frameAccounts>>

\* (variant: a token still valid at the instant it expires)
is_valid_AtExpiry(t) == ~t.is_used /\ utime <= t.expires_at

\* PasswordResetToken.is_valid
is_valid(t) == ~t.is_used /\ utime < t.expires_at

\* UserViewSet.password_reset_confirm with PasswordResetConfirmSerializer:
\* the passwords must match, the token row is looked up among the unused ones
\* and must be valid; then the password is set and the token marked used.
UserViewSet_password_reset_confirm(tok, new_password, confirm_password) ==
    LET rows == {t \in tokens : t.id = tok}
        used == \E t \in rows : t.is_used
        expired == \E t \in rows : utime >= t.expires_at
        found == {t \in rows : ~t.is_used}
        rejected == [AcctResp("password_reset_confirm", "400") EXCEPT
                        !.wasUsed = used, !.wasExpired = expired, !.unchanged = TRUE]
    IN
    /\ IF new_password # confirm_password \/ found = {}
       THEN /\ aresp' = rejected
            /\ UNCHANGED <<tokens, password>>
       ELSE LET t == CHOOSE x \in found : TRUE IN
            IF ~is_valid(t)
            THEN /\ aresp' = rejected
                 /\ UNCHANGED <<tokens, password>>
            ELSE /\ password' = [password EXCEPT ![t.user] = make_password(new_password)]
                 /\ tokens' = (tokens \ {t}) \cup {[t EXCEPT !.is_used = TRUE]}
                 /\ aresp' = [AcctResp("password_reset_confirm", "200") EXCEPT
                                 !.wasUsed = used, !.wasExpired = expired,
                                 !.applied = TRUE]
    /\ UNCHANGED <<tokNextId, feedback, utime, frameAccounts>>

\* ApplicationFeedbackViewSet.respond: the response is saved, then the mail is
\* sent with fail_silently=True when the feedback has an email.
ApplicationFeedbackViewSet_respond(response_text, transport_ok) ==
    /\ IF response_text = ""
       THEN /\ aresp' = AcctResp("respond", "400")
            /\ feedback' = feedback
       ELSE /\ feedback' = [feedback EXCEPT !.response = response_text,
                                            !.is_resolved = TRUE,
                                            !.responded_at = utime]
            /\ aresp' = [AcctResp("respond",
                                  IF feedback.email /\ send_mail(transport_ok, TRUE) = "raised"
                                  THEN "500" ELSE "200")
                           EXCEPT !.mailFailed = feedback.email /\ ~transport_ok,
                                  !.kept = TRUE]
    /\ UNCHANGED <<tokens, tokNextId, password, utime, frameAccounts>>

\* ApplicationFeedbackViewSet.perform_create: a feedback, with a contact
\* email or without, not yet answered.
ApplicationFeedbackViewSet_create(has_email) ==
    /\ feedback' = [email |-> has_email, response |-> "", is_resolved |-> FALSE,
                    responded_at |-> NoTime]
    /\ aresp' = AcctResp("feedback", "201")
    /\ UNCHANGED <<tokens, tokNextId, password, utime, frameAccounts>>

\* Time passes.
AcctTick ==
    /\ utime < MaxTime
    /\ utime' = utime + 1
    /\ UNCHANGED <<tokens, tokNextId, password, feedback, aresp, frameAccounts>>

NextAccounts ==
    \/ \E e \in Emails, ok \in BOOLEAN : UserViewSet_password_reset(e, ok)
    \/ \E tok \in NoToken..MaxTokId, pw \in RawPasswords, cf \in RawPasswords :
          UserViewSet_password_reset_confirm(tok, pw, cf)
    \/ \E txt \in {"", "thanks"}, ok \in BOOLEAN :
          ApplicationFeedbackViewSet_respond(txt, ok)
    \/ \E e \in BOOLEAN : ApplicationFeedbackViewSet_create(e)
    \/ AcctTick

SpecAccounts == InitAccounts /\ [][NextAccounts]_vars

\* C12: when the mail transport fails during a password-reset request or a
\* feedback response, the request still ends with its success response and the
\* state changes it made (the new token; the feedback's response, is_resolved
\* and responded_at) are kept.
C12_MailFailureSwallowed ==
    (aresp.op \in {"password_reset", "respond"} /\ aresp.mailFailed)
        => aresp.status = "200" /\ aresp.kept

\* C13: a confirm with a used or expired token is rejected and changes neither
\* the password nor the token; a confirm that succeeds was given a token not
\* used and not yet at its expiry, and has set the password and marked the
\* token used.
C13_ResetTokenValidity ==
    aresp.op = "password_reset_confirm" =>
        /\ (aresp.wasUsed \/ aresp.wasExpired) => aresp.status = "400" /\ aresp.unchanged
        /\ aresp.status = "200" => aresp.applied /\ ~aresp.wasUsed /\ ~aresp.wasExpired
        /\ aresp.status \in {"200", "400"}

\* C13's case: a token has been used by a successful confirm, and a confirm
\* with that used token has then been rejected.
C13_Witness ==
    /\ aresp.op = "password_reset_confirm" /\ aresp.status = "400" /\ aresp.wasUsed
    /\ \E u \in Users : password[u] # make_password("old")

\* ------------------------------------------------------------ Property.save

MaxPTime == 3      \* the instants timezone.now() takes at Property.save

InitPublish ==
    /\ PropInit({Store("for_sale", "absent", FALSE)}) /\ FavInit /\ CacheInit
    /\ LikeInit /\ NotifInit /\ KeyInit /\ AcctInit /\ ImageInit /\ MoreInit
    /\ PubInit

framePublish == <<propVars, favVars, cacheVars, likeVars, notifVars, keyVars, acctVars,
                  imageVars, moreVars>>

SaveStatus == {"pending", "for_sale", "for_rent", "sold"}

\* Property.save: published_at = now when the status is for_sale or for_rent
\* and the instance has no published_at.
PublishedAtOnSave(inst) ==
    IF inst.status \in {"for_sale", "for_rent"} /\ inst.published_at = NoTime
    THEN ptime ELSE inst.published_at

\* Property.save then super().save(): every field of the instance is written.
SaveInstance(i, inst) ==
    LET saved == [inst EXCEPT !.held = TRUE, !.published_at = PublishedAtOnSave(inst)] IN
    /\ pinst' = [pinst EXCEPT ![i] = saved]
    /\ prow' = [exists |-> TRUE, status |-> saved.status,
                published_at |-> saved.published_at,
                views_count |-> saved.views_count,
                favorites_count |-> saved.favorites_count]
    /\ everListed' = (everListed \/ saved.status \in {"for_sale", "for_rent"})

\* Property.objects.create(status=...): the first save of the row.
Property_objects_create(i, st) ==
    /\ ~prow.exists
    /\ SaveInstance(i, [NoInst EXCEPT !.status = st])
    /\ UNCHANGED <<ptime, framePublish>>

\* An instance loaded from the row: every field of it.
InstanceOf(row) ==
    [held |-> TRUE, status |-> row.status, published_at |-> row.published_at,
     views_count |-> row.views_count, favorites_count |-> row.favorites_count]

\* Property.objects.get(pk=...): an instance with the row's fields.
Property_objects_get(i) ==
    /\ prow.exists
    /\ pinst' = [pinst EXCEPT ![i] = InstanceOf(prow)]
    /\ UNCHANGED <<prow, ptime, everListed, framePublish>>

\* instance.status = st; instance.save()
Property_save(i, st) ==
    /\ prow.exists /\ pinst[i].held
    /\ SaveInstance(i, [pinst[i] EXCEPT !.status = st])
    /\ UNCHANGED <<ptime, framePublish>>

\* Time passes.
PubTick ==
    /\ ptime < MaxPTime
    /\ ptime' = ptime + 1
    /\ UNCHANGED <<prow, pinst, everListed, framePublish>>

NextPublish ==
    \/ \E i \in Inst, st \in SaveStatus : Property_objects_create(i, st)
    \/ \E i \in Inst : Property_objects_get(i)
    \/ \E i \in Inst, st \in SaveStatus : Property_save(i, st)
    \/ PubTick

SpecPublish == InitPublish /\ [][NextPublish]_vars

\* C16: published_at is set by the first save with status for_sale or
\* for_rent, is null while the property has only been saved with other
\* statuses, and once set is not changed by any later save.
C16_PublishedAtSetOnce ==
    /\ [](prow.exists => ((prow.published_at # NoTime) = everListed))
    /\ [][prow.published_at # NoTime => prow'.published_at = prow.published_at]_vars

\* -------------------------------------------------------- PropertyImage.save

InitImages ==
    /\ PropInit({Store("for_sale", "for_sale", FALSE)}) /\ FavInit /\ CacheInit
    /\ LikeInit /\ NotifInit /\ KeyInit /\ AcctInit /\ PubInit /\ MoreInit
    /\ ImageInit

frameImages == <<propVars, favVars, cacheVars, likeVars, notifVars, keyVars, acctVars,
                 pubVars, moreVars>>

\* (variant: a save that leaves the other primary images alone)
PrimariesToClear_None(img) == {}

\* PropertyImage.objects.filter(property=self.property, is_primary=True)
PrimariesToClear(img) ==
    {o \in ImageIds : /\ images[o].exists /\ images[o].is_primary
                      /\ ImageProperty(o) = ImageProperty(img)}

\* PropertyImage.save: with is_primary, the property's primary rows are
\* updated to is_primary False; then super().save() writes the row.
PropertyImage_save(img, is_primary) ==
    LET cleared == IF is_primary THEN PrimariesToClear(img) ELSE {} IN
    /\ images' = [o \in ImageIds |->
                    IF o = img THEN [exists |-> TRUE, is_primary |-> is_primary]
                    ELSE IF o \in cleared THEN [images[o] EXCEPT !.is_primary = FALSE]
                    ELSE images[o]]
    /\ lastPrimary' = IF is_primary
                      THEN [lastPrimary EXCEPT ![ImageProperty(img)] = img]
                      ELSE lastPrimary
    /\ UNCHANGED frameImages

\* PropertyImage.delete (models.Model.delete)
PropertyImage_delete(img) ==
    /\ images[img].exists
    /\ images' = [images EXCEPT ![img] = [exists |-> FALSE, is_primary |-> FALSE]]
    /\ UNCHANGED <<lastPrimary, frameImages>>

NextImages ==
    \/ \E img \in ImageIds, prim \in BOOLEAN : PropertyImage_save(img, prim)
    \/ \E img \in ImageIds : PropertyImage_delete(img)

SpecImages == InitImages /\ [][NextImages]_vars

PrimaryImages(p) ==
    {img \in ImageIds : images[img].exists /\ images[img].is_primary
                        /\ ImageProperty(img) = p}

\* C17: after any sequence of PropertyImage saves, a property has at most one
\* image with is_primary true, and it is the image most recently saved with
\* is_primary true.
C17_SinglePrimaryImage ==
    \A p \in Prop : /\ Cardinality(PrimaryImages(p)) <= 1
                    /\ \A img \in PrimaryImages(p) : lastPrimary[p] = img

\* C17's case: a second image of a property was saved as primary after a
\* first one, which is no longer primary.
C17_Witness ==
    \E a, b \in ImageIds :
        /\ a # b /\ ImageProperty(a) = ImageProperty(b)
        /\ images[a].exists /\ ~images[a].is_primary
        /\ PrimaryImages(ImageProperty(a)) = {b}
        /\ PrimaryImages("p2") # {}

\* ------------------------------------------- the counters of one Property row

InitCounters ==
    /\ PropInit({Store("for_sale", "absent", FALSE)}) /\ FavInit /\ CacheInit
    /\ LikeInit /\ NotifInit /\ KeyInit /\ AcctInit /\ ImageInit
    /\ PubInit /\ CntInit /\ UlInit /\ MarkInit

frameCounters == <<propVars, favVars, cacheVars, likeVars, notifVars, keyVars, acctVars,
                   imageVars, ulVars, markVars>>

\* (variant: a save that writes every field of the instance)
SaveUpdateFields_AllFields(row, inst) ==
    [exists |-> TRUE, status |-> inst.status, published_at |-> inst.published_at,
     views_count |-> inst.views_count, favorites_count |-> inst.favorites_count]

\* property.save(update_fields=['favorites_count']): Property.save may stamp
\* published_at on the instance; the UPDATE writes the favorites_count column.
SaveUpdateFields(row, inst) ==
    [row EXCEPT !.favorites_count = inst.favorites_count]

\* A Favorite write by user u begins: the toggle's get_object_or_404(Property,
\* id=property_id), or the load of favorite.property; the row of (u, property)
\* is created when there is none, deleted otherwise.
FavoriteWrite_begin(u) ==
    /\ fw.pc \in {"idle", "done"}
    /\ prow.exists
    /\ fw' = [NoFavoriteWrite EXCEPT !.pc = "row", !.user = u,
                                     !.kind = IF u \in prows THEN "delete" ELSE "create",
                                     !.inst = InstanceOf(prow)]
    /\ UNCHANGED <<prows, pviews, cresp, pubVars, frameCounters>>

\* Favorite.save / Favorite.delete, first statement: the INSERT or the DELETE.
FavoriteWrite_row ==
    /\ fw.pc = "row"
    /\ prows' = IF fw.kind = "create" THEN prows \cup {fw.user} ELSE prows \ {fw.user}
    /\ fw' = [fw EXCEPT !.pc = "count"]
    /\ UNCHANGED <<pviews, cresp, pubVars, frameCounters>>

\* self.property.favorites_count = self.property.favorites.count()
FavoriteWrite_count ==
    /\ fw.pc = "count"
    /\ fw' = [fw EXCEPT !.pc = "persist", !.cnt = Cardinality(prows),
                        !.inst = [fw.inst EXCEPT !.favorites_count = Cardinality(prows)]]
    /\ UNCHANGED <<prows, pviews, cresp, pubVars, frameCounters>>

\* self.property.save(update_fields=['favorites_count'])
FavoriteWrite_persist ==
    LET inst == [fw.inst EXCEPT !.published_at = PublishedAtOnSave(fw.inst)] IN
    /\ fw.pc = "persist"
    /\ prow' = SaveUpdateFields(prow, inst)
    /\ fw' = [fw EXCEPT !.pc = "done", !.inst = inst,
                        !.stale = (fw.inst.status # prow.status
                                   \/ fw.inst.published_at # prow.published_at
                                   \/ fw.inst.views_count # prow.views_count)]
    /\ UNCHANGED <<prows, pviews, cresp, pinst, ptime, everListed, frameCounters>>

\* get_object() of PropertyViewSet on the row: 404 outside get_queryset's
\* status filter, else the evaluation of the queryset.
GetObject ==
    IF ~prow.exists \/ prow.status \notin {"for_sale", "for_rent"} THEN "404"
    ELSE IF Evaluate({"p1"}) = "ok" THEN "ok" ELSE "500"

\* PropertyViewSet.retrieve on the row: get_object(), then
\* Property.objects.filter(pk=pk).update(views_count=F('views_count') + 1).
Detail_retrieve ==
    /\ pviews < MaxRetrieves
    /\ pviews' = IF GetObject = "404" THEN pviews ELSE pviews + 1
    /\ IF GetObject = "ok"
       THEN /\ prow' = [prow EXCEPT !.views_count = @ + 1]
            /\ cresp' = [op |-> "retrieve", status |-> "200"]
       ELSE /\ prow' = prow
            /\ cresp' = [op |-> "retrieve", status |-> GetObject]
    /\ UNCHANGED <<prows, fw, pinst, ptime, everListed, frameCounters>>

\* PropertyViewSet.update / partial_update on the row: get_object(), then
\* perform_update -> serializer.save() -> instance.save().
Detail_update(i, st) ==
    /\ IF GetObject = "ok"
       THEN /\ SaveInstance(i, [InstanceOf(prow) EXCEPT !.status = st])
            /\ cresp' = [op |-> "update", status |-> "200"]
       ELSE /\ UNCHANGED <<prow, pinst, everListed>>
            /\ cresp' = [op |-> "update", status |-> GetObject]
    /\ UNCHANGED <<prows, fw, pviews, ptime, frameCounters>>

\* The Favorite writes beside the admin's change form (PropertyAdmin: the
\* object is loaded, the form applied and the object saved) and the detail
\* requests.
AdminForms == {1}
FrameStatus == {"pending", "for_sale"}

NextFrame ==
    \/ \E i \in AdminForms, st \in FrameStatus : Property_objects_create(i, st)
    \/ \E i \in AdminForms : Property_objects_get(i)
    \/ \E i \in AdminForms, st \in FrameStatus : Property_save(i, st)
    \/ \E u \in Users : FavoriteWrite_begin(u)
    \/ FavoriteWrite_row
    \/ FavoriteWrite_count
    \/ FavoriteWrite_persist
    \/ Detail_retrieve

SpecFrame == InitCounters /\ [][NextFrame]_vars

\* The statements of a Favorite write after the load of its property.
FavoriteWriteStep == fw.pc \in {"row", "count", "persist"} /\ fw'.pc # fw.pc

\* C22: a Favorite create or delete writes the favorites_count column of the
\* parent property and nothing else of it: views_count, status and
\* published_at stay as the other requests left them, also when the
\* instance the write holds was loaded before they changed.
C22_FavoriteWritePersistsOnlyCount ==
    [][FavoriteWriteStep =>
          /\ prow'.status = prow.status
          /\ prow'.published_at = prow.published_at
          /\ prow'.views_count = prow.views_count
          /\ prow'.exists = prow.exists
          /\ fw.pc = "persist" => prow'.favorites_count = fw.cnt
          /\ fw.pc # "persist" => prow'.favorites_count = prow.favorites_count]_vars

\* C22's case: between the load of the property by a Favorite write and its
\* persist the property was listed (status and published_at changed) and a
\* detail request found it; the write has completed.
C22_Witness ==
    /\ fw.pc = "done" /\ fw.stale
    /\ fw.inst.status = "pending" /\ prow.status = "for_sale"
    /\ fw.inst.published_at = NoTime /\ prow.published_at # NoTime
    /\ pviews > 0
    /\ prow.favorites_count = Cardinality(prows) /\ prows # {}

\* The update requests beside the detail requests and the Favorite writes.
NextUpdate ==
    \/ \E i \in AdminForms, st \in FrameStatus : Property_objects_create(i, st)
    \/ \E u \in Users : FavoriteWrite_begin(u)
    \/ FavoriteWrite_row
    \/ FavoriteWrite_count
    \/ FavoriteWrite_persist
    \/ Detail_retrieve
    \/ \E i \in AdminForms, st \in FrameStatus : Detail_update(i, st)

SpecUpdate == InitCounters /\ [][NextUpdate]_vars

frameUserList == <<propVars, favVars, cacheVars, likeVars, notifVars, keyVars, acctVars,
                   pubVars, imageVars, cntVars, markVars>>

\* User.id and Favorite.id are both autoincrement integers.
UserId(u) == IF u = "u1" THEN 1 ELSE 2

\* The tables the lists are computed from: the Property rows, and the Favorite
\* rows a toggle of u2 has left.
FavoriteTables == { {}, {[user |-> "u2", property |-> "p1", id |-> 1]} }

InitUserList ==
    /\ PropInit(PropertyStores \ {Store("absent", "absent", FALSE)})
    /\ favorites \in FavoriteTables
    /\ favorites_count = [p \in Prop |-> FavoritesCount(p, favorites)]
    /\ favNextId = Cardinality(favorites) + 1
    /\ freq = [r \in Req |-> IdleReq] /\ serial = TRUE /\ last = 0
    /\ CacheInit /\ LikeInit /\ NotifInit /\ KeyInit /\ AcctInit /\ PubInit /\ ImageInit
    /\ CntInit /\ UlInit /\ MarkInit

\* PropertySerializer.get_is_favorited:
\* obj.favorites.filter(id=request.user.id).exists() for an authenticated user
get_is_favorited(p, u) ==
    /\ u # "anon"
    /\ \E f \in favorites : f.property = p /\ f.id = UserId(u)

\* ReviewSerializer.get_is_liked:
\* ReviewLike.objects.filter(user=request.user, review=obj).exists()
get_is_liked(rv, u) ==
    /\ u # "anon"
    /\ LikeRowsOf(u, rv) # {}

\* The rows of the list and the outcome of building and evaluating its queryset.
ListRows(kind) ==
    IF kind = "property_list" THEN Listed ELSE ApprovedReviews

ListOutcome(kind) ==
    IF kind = "property_list" THEN Evaluate(Listed) ELSE ReviewQuerySet

\* serializer.data of the page for request.user: each row with its per-user field.
Serialize(kind, u) ==
    {[id |-> x,
      flag |-> IF kind = "property_list" THEN get_is_favorited(x, u)
               ELSE get_is_liked(x, u)] : x \in ListRows(kind)}

UserResp(kind, u, status, payload, cached, by) ==
    [kind |-> kind, user |-> u, status |-> status, payload |-> payload,
     cached |-> cached, by |-> by]

\* list: cache_key = self._get_cache_key(prefix, request), made of the prefix
\* and the query parameters; cached_response = cache.get(cache_key) is
\* returned when there is one.
UserList_get(kind, u) ==
    /\ ureq.pc = "idle"
    /\ IF ucache[kind].present
       THEN /\ uresp' = UserResp(kind, u, "200", ucache[kind].payload, TRUE,
                                 ucache[kind].by)
            /\ ureq' = ureq
       ELSE /\ ureq' = [pc |-> "query", kind |-> kind, user |-> u, payload |-> {}]
            /\ uresp' = uresp
    /\ UNCHANGED <<ucache, frameUserList>>

\* list: response = super().list(request): get_queryset(), the evaluation of
\* the page, the serialization for request.user.
UserList_query ==
    /\ ureq.pc = "query"
    /\ IF ListOutcome(ureq.kind) = "ok"
       THEN /\ ureq' = [ureq EXCEPT !.pc = "set",
                                    !.payload = Serialize(ureq.kind, ureq.user)]
            /\ uresp' = uresp
       ELSE /\ ureq' = NoUserReq
            /\ uresp' = UserResp(ureq.kind, ureq.user, "500", {}, FALSE, "anon")
    /\ UNCHANGED <<ucache, frameUserList>>

\* list: cache.set(cache_key, response.data, timeout); return response
UserList_set ==
    /\ ureq.pc = "set"
    /\ ucache' = [ucache EXCEPT ![ureq.kind] =
                     [present |-> TRUE, payload |-> ureq.payload, by |-> ureq.user]]
    /\ uresp' = UserResp(ureq.kind, ureq.user, "200", ureq.payload, FALSE, ureq.user)
    /\ ureq' = NoUserReq
    /\ UNCHANGED frameUserList

\* The entry's timeout passes.
UserList_expire(kind) ==
    /\ ucache[kind].present
    /\ ucache' = [ucache EXCEPT ![kind] = NoUserEntry]
    /\ UNCHANGED <<ureq, uresp, frameUserList>>

NextUserList ==
    \/ \E kind \in ListKinds, u \in Callers : UserList_get(kind, u)
    \/ UserList_query
    \/ UserList_set
    \/ \E kind \in ListKinds : UserList_expire(kind)

SpecUserList == InitUserList /\ [][NextUserList]_vars

Mark_retrieve_get(r, u, id) ==
    /\ mreq[r].pc = "idle"
    /\ \E n \in NotificationsOf(u) :
          /\ n.id = id
          /\ mreq' = [mreq EXCEPT ![r] =
                        IF n.is_read THEN NoMarkReq
                        ELSE [pc |-> "mark", op |-> "retrieve", inst |-> n]]
          /\ nresp' = IF n.is_read THEN NotifResp("retrieve", "200", 0, 0, 0) ELSE nresp
    /\ UNCHANGED <<notifs, notifNextId, now, propVars, favVars, cacheVars, likeVars,
                   keyVars, acctVars, pubVars, imageVars, cntVars, ulVars>>

\* mark_read without ids: instance = get_queryset().filter(is_read=False).first()
Mark_first_get(r, u) ==
    /\ mreq[r].pc = "idle"
    /\ Unread(u) # {}
    /\ mreq' = [mreq EXCEPT ![r] = [pc |-> "mark", op |-> "mark_read",
                                    inst |-> First(Unread(u))]]
    /\ UNCHANGED <<notifs, notifNextId, now, nresp, propVars, favVars, cacheVars,
                   likeVars, keyVars, acctVars, pubVars, imageVars, cntVars, ulVars>>

\* instance.mark_as_read(): `if not self.is_read` looks at the instance in
\* memory; is_read = True, read_at = timezone.now(),
\* save(update_fields=['is_read', 'read_at']); then the response.
Mark_as_read_save(r) ==
    LET inst == mreq[r].inst IN
    /\ mreq[r].pc = "mark"
    /\ \E row \in notifs :
          /\ row.id = inst.id
          /\ notifs' = IF ~inst.is_read
                       THEN (notifs \ {row}) \cup
                               {[row EXCEPT !.is_read = TRUE, !.read_at = now]}
                       ELSE notifs
    /\ nresp' = NotifResp(mreq[r].op, "200", 1, 0, 0)
    /\ mreq' = [mreq EXCEPT ![r] = NoMarkReq]
    /\ UNCHANGED <<notifNextId, now, propVars, favVars, cacheVars, likeVars,
                   keyVars, acctVars, pubVars, imageVars, cntVars, ulVars>>

NextMarks ==
    \/ \E u \in Users : NotificationViewSet_create(u)
    \/ \E r \in Req, u \in Users, id \in NotifIds : Mark_retrieve_get(r, u, id)
    \/ \E r \in Req, u \in Users : Mark_first_get(r, u)
    \/ \E r \in Req : Mark_as_read_save(r)
    \/ \E u \in Users : NotificationViewSet_mark_all_read(u)
    \/ \E u \in Users, ids \in (SUBSET NotifIds) \ {{}} : NotificationViewSet_mark_read(u, ids)
    \/ Tick

SpecMarks == InitNotifications /\ [][NextMarks]_vars

\* C25: once a mark operation (retrieve, mark_read with or without ids,
\* mark_all_read) has set read_at of a notification, no mark operation, later
\* or concurrent, changes it.
C25_ReadAtWrittenOnce ==
    [][\A n \in notifs : \A m \in notifs' :
          (n.id = m.id /\ n.read_at # NoTime) => m.read_at = n.read_at]_vars

====
